---- MODULE Spec2Model ----
(***************************************************************************)
(* tower-governor: the rate limiting middleware (src/src/lib.rs) and its   *)
(* configuration builder (src/src/governor.rs).                            *)
(*                                                                         *)
(* Time is counted in nanoseconds, as the limiter does (governor::nanos),  *)
(* with the units scaled down: a millisecond is NanosPerMilli nanoseconds  *)
(* and a second MillisPerSec milliseconds.  The u64 range of the limiter's *)
(* nanosecond arithmetic (2^64 ns, some 2^34 seconds) is scaled down to    *)
(* 2^NanosBits seconds, whatever the units are.                            *)
(***************************************************************************)
EXTENDS Integers, Sequences, FiniteSets, TLC

VARIABLES builder, finished, limiters, configs, layers, governors, now, reqs,
          ready

vars == <<builder, finished, limiters, configs, layers, governors, now, reqs,
          ready>>

(***************************************************************************)
(* Bounds of the model.                                                    *)
(***************************************************************************)
NanosPerMilli == 1
MillisPerSec == 2
NanosBits == 4
MaxArg == 2
MaxPeriod == 3
MaxBurst == 2
MaxFinish == 1
MaxGovernors == 2
MaxReqs == 3
MaxTime == 2
MaxPolled == 2
MaxSleep == 4
MaxConfigs == 3
MaxLayers == 2

NanosPerSec == NanosPerMilli * MillisPerSec
MaxNanos == 2 ^ NanosBits * NanosPerSec - 1

DEFAULT_BURST_SIZE == 8

Max(a, b) == IF a >= b THEN a ELSE b

\* Option<T>
None == [tag |-> "None"]
Some(v) == [tag |-> "Some", val |-> v]

Method == {"GET", "POST"}
\* the method filters a builder is given
MethodSets == {{"POST"}}

(***************************************************************************)
(* std::time::Duration, as a number of nanoseconds.                        *)
(***************************************************************************)
from_nanos(n) == n
from_millis(ms) == ms * NanosPerMilli
from_secs(s) == s * NanosPerSec
as_nanos(d) == d
as_secs(d) == d \div NanosPerSec

\* Duration::from_millis(500), half a second in the model's units
DEFAULT_PERIOD == from_millis(MillisPerSec \div 2)

(***************************************************************************)
(* GovernorConfigBuilder                                                   *)
(***************************************************************************)
const_default ==
    [period |-> DEFAULT_PERIOD, burst_size |-> DEFAULT_BURST_SIZE,
     methods |-> None, error_handler |-> "default"]

\* finish without allow_burst: the quota of with_period alone
Quota_no_burst(b) == [replenish_1_per |-> b.period, max_burst |-> 1]

\* finish taking the period for the time the whole burst replenishes in
Quota_all_per(b) ==
    [replenish_1_per |-> b.period * b.burst_size, max_burst |-> b.burst_size]

\* The policy finish hands to the limiter:
\* Quota::with_period(period).unwrap().allow_burst(burst_size)
Quota(b) == [replenish_1_per |-> b.period, max_burst |-> b.burst_size]

\* finish's test: Some(..) is built exactly when this holds
finish_valid(b) == b.burst_size # 0 /\ as_nanos(b.period) # 0

\* RateLimiter::direct(quota): the limiter keeps t (one period) and
\* tau (period * burst) as u64 nanoseconds; a Duration that does not fit
\* makes the conversion panic ("Duration is longer than 584 years").
direct_panics(q) ==
    \/ q.replenish_1_per * q.max_burst > MaxNanos
    \/ q.replenish_1_per > MaxNanos

\* The limiter: its two parameters, its start instant and its one atomic
\* cell (0: no request seen yet).
direct(q, start) ==
    [t |-> q.replenish_1_per, tau |-> q.replenish_1_per * q.max_burst,
     start |-> start, state |-> 0]

\* finish handing out the limiter made first again
finish_shared(b, ptr) ==
    IF finish_valid(b)
    THEN IF direct_panics(Quota(b))
         THEN [tag |-> "panic"]
         ELSE Some([limiter |-> 1, methods |-> b.methods,
                    error_handler |-> b.error_handler])
    ELSE None

\* finish: "None", "panic", or "Some" with the config around a new limiter
\* at heap address ptr
finish(b, ptr) ==
    IF finish_valid(b)
    THEN IF direct_panics(Quota(b))
         THEN [tag |-> "panic"]
         ELSE Some([limiter |-> ptr, methods |-> b.methods,
                    error_handler |-> b.error_handler])
    ELSE None

BuilderUnchanged ==
    UNCHANGED <<limiters, configs, layers, governors, now, reqs, ready>>

Period(d) ==
    /\ builder' = [builder EXCEPT !.period = d]
    /\ finished' = [tag |-> "unset"]
    /\ BuilderUnchanged

PerSecond(s) ==
    /\ builder' = [builder EXCEPT !.period = from_secs(s)]
    /\ finished' = [tag |-> "unset"]
    /\ BuilderUnchanged

PerMillisecond(ms) ==
    /\ builder' = [builder EXCEPT !.period = from_millis(ms)]
    /\ finished' = [tag |-> "unset"]
    /\ BuilderUnchanged

PerNanosecond(ns) ==
    /\ builder' = [builder EXCEPT !.period = from_nanos(ns)]
    /\ finished' = [tag |-> "unset"]
    /\ BuilderUnchanged

BurstSize(n) ==
    /\ builder' = [builder EXCEPT !.burst_size = n]
    /\ finished' = [tag |-> "unset"]
    /\ BuilderUnchanged

Methods(ms) ==
    /\ builder' = [builder EXCEPT !.methods = Some(ms)]
    /\ finished' = [tag |-> "unset"]
    /\ BuilderUnchanged

ErrorHandler(h) ==
    /\ builder' = [builder EXCEPT !.error_handler = h]
    /\ finished' = [tag |-> "unset"]
    /\ BuilderUnchanged

\* builder.finish(), while fewer than max limiters have been made
FinishUpTo(max) ==
    /\ Len(limiters) < max
    /\ LET r == finish(builder, Len(limiters) + 1) IN
         /\ finished' = [tag |-> r.tag]
         /\ IF r.tag = "Some"
            THEN /\ limiters' = Append(limiters, direct(Quota(builder), now))
                 /\ configs' = Append(configs, r.val)
            ELSE UNCHANGED <<limiters, configs>>
    /\ UNCHANGED <<builder, layers, governors, now, reqs, ready>>

Finish == FinishUpTo(MaxFinish)

InitBuilder ==
    /\ builder = const_default
    /\ finished = [tag |-> "unset"]
    /\ limiters = <<>>
    /\ configs = <<>>
    /\ layers = <<>>
    /\ governors = <<>>
    /\ now = 0
    /\ reqs = <<>>
    /\ ready = None

NextBuilder ==
    \/ \E d \in 0 .. MaxArg : Period(from_nanos(d))
    \/ \E s \in 0 .. MaxArg : PerSecond(s)
    \/ \E ms \in 0 .. MaxArg : PerMillisecond(ms)
    \/ \E ns \in 0 .. MaxArg : PerNanosecond(ns)
    \/ \E n \in 0 .. MaxBurst : BurstSize(n)
    \/ \E ms \in MethodSets : Methods(ms)
    \/ \E h \in {"default", "custom"} : ErrorHandler(h)
    \/ Finish

SpecBuilder == InitBuilder /\ [][NextBuilder]_vars

(***************************************************************************)
(* GovernorConfig::default and GovernorConfig::secure                      *)
(***************************************************************************)
\* Option::unwrap
unwrap(o) == IF o.tag = "None" THEN [tag |-> "panic"] ELSE o

\* secure with the two numbers exchanged
secure_builder_swapped ==
    [period |-> from_secs(2), burst_size |-> 4,
     methods |-> None, error_handler |-> "default"]

\* the builder secure writes out: governor.rs:253-258
secure_builder ==
    [period |-> from_secs(4), burst_size |-> 2,
     methods |-> None, error_handler |-> "default"]

\* b.finish().unwrap(), the preset's name kept with the outcome
Preset(name, b) ==
    /\ Len(configs) < MaxFinish
    /\ LET r == unwrap(finish(b, Len(limiters) + 1)) IN
         /\ finished' = [tag |-> r.tag, preset |-> name]
         /\ IF r.tag = "Some"
            THEN /\ limiters' = Append(limiters, direct(Quota(b), now))
                 /\ configs' = Append(configs, r.val)
            ELSE UNCHANGED <<limiters, configs>>
    /\ builder' = b
    /\ UNCHANGED <<layers, governors, now, reqs, ready>>

\* GovernorConfig::default(): GovernorConfigBuilder::default().finish().unwrap()
Default == Preset("default", const_default)

Secure == Preset("secure", secure_builder)

(***************************************************************************)
(* The limiter (governor's direct RateLimiter, GCRA).  check() reads the   *)
(* clock once, then runs a compare-and-swap loop on the atomic cell.       *)
(***************************************************************************)
\* the decision refusing a request that arrives exactly at the earliest instant
test_and_update_strict(lim, state, t0) ==
    LET tat == IF state = 0 THEN t0 + lim.t ELSE state
        earliest == IF tat > lim.tau THEN tat - lim.tau ELSE 0
    IN  IF t0 <= earliest
        THEN [tag |-> "Err", earliest |-> earliest, next |-> 0]
        ELSE [tag |-> "Ok", earliest |-> 0, next |-> Max(tat, t0) + lim.t]

\* One evaluation of the decision on the value read from the cell:
\* Err(earliest) when t0 is before the earliest admissible instant,
\* Ok(next) with the cell's next value otherwise.
test_and_update(lim, state, t0) ==
    LET tat == IF state = 0 THEN t0 + lim.t ELSE state
        earliest == IF tat > lim.tau THEN tat - lim.tau ELSE 0
    IN  IF t0 < earliest
        THEN [tag |-> "Err", earliest |-> earliest, next |-> 0]
        ELSE [tag |-> "Ok", earliest |-> 0, next |-> Max(tat, t0) + lim.t]

\* AtomicU64::compare_exchange_weak(prev, new) succeeds only on prev
compare_exchange(cur, prev) == cur = prev

\* NotUntil::wait_time_from(from): the time left until earliest, 0 when past
wait_time_from(earliest, from) ==
    IF earliest > from THEN earliest - from ELSE 0

(***************************************************************************)
(* Governor<S>: new and clone.  The limiter is an Arc: heap is the         *)
(* sequence of limiters, a handle an index into it.                        *)
(***************************************************************************)
Arc_clone(heap, p) == [heap |-> heap, ptr |-> p]

\* new and clone giving the middleware a limiter of its own
Governor_new_private(heap, config) ==
    [heap |-> Append(heap, heap[config.limiter]),
     gov |-> [limiter |-> Len(heap) + 1, methods |-> config.methods,
              error_handler |-> config.error_handler]]

Governor_clone_private(heap, gov) ==
    [heap |-> Append(heap, heap[gov.limiter]),
     gov |-> [limiter |-> Len(heap) + 1, methods |-> gov.methods,
              error_handler |-> gov.error_handler]]

Governor_new(heap, config) ==
    LET a == Arc_clone(heap, config.limiter) IN
    [heap |-> a.heap,
     gov |-> [limiter |-> a.ptr, methods |-> config.methods,
              error_handler |-> config.error_handler]]

Governor_clone(heap, gov) ==
    LET a == Arc_clone(heap, gov.limiter) IN
    [heap |-> a.heap,
     gov |-> [limiter |-> a.ptr, methods |-> gov.methods,
              error_handler |-> gov.error_handler]]

RuntimeUnchanged == UNCHANGED <<builder, finished, configs, layers>>

\* Governor::new(inner, &config), also reached through GovernorLayer::layer
GovernorNew(c) ==
    /\ Len(governors) < MaxGovernors
    /\ LET r == Governor_new(limiters, configs[c]) IN
         /\ limiters' = r.heap
         /\ governors' = Append(governors, r.gov)
    /\ UNCHANGED <<now, reqs, ready>>
    /\ RuntimeUnchanged

GovernorClone(g) ==
    /\ Len(governors) < MaxGovernors
    /\ LET r == Governor_clone(limiters, governors[g]) IN
         /\ limiters' = r.heap
         /\ governors' = Append(governors, r.gov)
    /\ UNCHANGED <<now, reqs, ready>>
    /\ RuntimeUnchanged

(***************************************************************************)
(* GovernorConfig's derived Clone, and GovernorLayer: a layer holds an     *)
(* Arc<GovernorConfig>, here the index of the config in configs.  A copy   *)
(* of a config or of a layer remembers what it was cloned from (clone_of), *)
(* and a middleware made by a layer the layer (layer).                     *)
(***************************************************************************)
\* a clone with a limiter of its own, its budget full
GovernorConfig_clone_fresh(heap, config) ==
    [heap |-> Append(heap, [heap[config.limiter] EXCEPT !.state = 0]),
     config |-> [config EXCEPT !.limiter = Len(heap) + 1]]

\* #[derive(Clone)] on GovernorConfig: governor.rs:224
GovernorConfig_clone(heap, config) ==
    LET a == Arc_clone(heap, config.limiter) IN
    [heap |-> a.heap, config |-> [config EXCEPT !.limiter = a.ptr]]

ConfigClone(c) ==
    /\ Len(configs) < MaxConfigs
    /\ LET r == GovernorConfig_clone(limiters, configs[c]) IN
         /\ limiters' = r.heap
         /\ configs' = Append(configs,
                              [limiter |-> r.config.limiter,
                               methods |-> r.config.methods,
                               error_handler |-> r.config.error_handler,
                               clone_of |-> c])
    /\ UNCHANGED <<builder, finished, layers, governors, now, reqs, ready>>

\* GovernorLayer { config: Arc::new(config) }
LayerNew(c) ==
    /\ Len(layers) < MaxLayers
    /\ layers' = Append(layers, [config |-> c])
    /\ UNCHANGED <<builder, finished, limiters, configs, governors, now, reqs,
                   ready>>

\* GovernorLayer::clone: lib.rs:36-42
GovernorLayer_clone(l) == [config |-> l.config]

LayerClone(l) ==
    /\ Len(layers) < MaxLayers
    /\ layers' = Append(layers, [config |-> GovernorLayer_clone(layers[l]).config,
                                  clone_of |-> l])
    /\ UNCHANGED <<builder, finished, limiters, configs, governors, now, reqs,
                   ready>>

\* GovernorLayer::layer(inner): lib.rs:30-32
Layer(l) ==
    /\ Len(governors) < MaxGovernors
    /\ LET r == Governor_new(limiters, configs[layers[l].config]) IN
         /\ limiters' = r.heap
         /\ governors' = Append(governors,
                                [limiter |-> r.gov.limiter,
                                 methods |-> r.gov.methods,
                                 error_handler |-> r.gov.error_handler,
                                 layer |-> l])
    /\ UNCHANGED <<now, reqs, ready>>
    /\ RuntimeUnchanged

(***************************************************************************)
(* Governor::call and ResponseFuture::poll, one record per request.        *)
(***************************************************************************)
\* the filter test without its negation
not_configured_inverted(methods, m) == methods.tag = "Some" /\ m \in methods.val

\* the request is outside the configured methods: lib.rs:57-58
not_configured(methods, m) == methods.tag = "Some" /\ m \notin methods.val

\* u64 -> HeaderValue: the decimal digits
RECURSIVE Decimal(_)
Decimal(n) == IF n < 10 THEN <<n>> ELSE Decimal(n \div 10) \o <<n % 10>>

\* the HeaderMap built on a denial: lib.rs:83-85
retry_headers(wait_time) ==
    [h \in {"x-ratelimit-after", "retry-after"} |-> Decimal(wait_time)]

\* the wait time taken in nanoseconds instead of whole seconds
wait_nanos(earliest, from) == as_nanos(wait_time_from(earliest, from))

\* lib.rs:75-77
wait_secs(earliest, from) == as_secs(wait_time_from(earliest, from))

\* GovernorError::TooManyRequests: lib.rs:87-90
TooManyRequests(wait_time) ==
    [wait_time |-> wait_time, headers |-> Some(retry_headers(wait_time))]

\* GovernorError::as_response, the default handler: status 429 with the
\* error's headers and a minimal body
as_response(e) ==
    [status |-> 429,
     headers |-> IF e.headers.tag = "Some" THEN e.headers.val ELSE <<>>,
     body |-> "Too Many Requests"]

\* a handler set with error_handler(func): the one of the documentation,
\* which answers with a plain response
custom_response(e) == [status |-> 200, headers |-> <<>>, body |-> "some error"]

error_handler(gov, e) ==
    IF gov.error_handler = "default" THEN as_response(e) ELSE custom_response(e)

\* A request entering call.  Besides the locals of call and the future's
\* fields the record keeps what happened to it: concurrent (another call was
\* in progress when it began), at (the clock when it was decided), from (the
\* second clock reading of a denial) and the calls made on its behalf.
NoReq(g, m, id) ==
    [g |-> g, req |-> [id |-> id, method |-> m], pc |-> "load",
     concurrent |-> \E i \in 1 .. Len(reqs) : reqs[i].pc \in {"load", "cas", "negative"},
     decision |-> "none", t0 |-> 0, prev |-> 0, next |-> 0, earliest |-> 0,
     at |-> 0, from |-> 0, kind |-> "none", inner_calls |-> 0, inner_req |-> None,
     handler_calls |-> 0, error |-> None, error_response |-> None,
     inner_out |-> None, out |-> None]

\* inner.call(req) and the Passthrough future around its future
passthrough(r, decision) ==
    [r EXCEPT !.pc = "future", !.decision = decision, !.kind = "Passthrough",
              !.inner_calls = @ + 1, !.inner_req = Some(r.req), !.at = now]

InCall(r) == r.pc \in {"load", "cas", "negative"}

\* call(&mut self, req) up to the clock reading of limiter.check()
CallBegin(g, m) ==
    /\ \A i \in 1 .. Len(reqs) : ~(reqs[i].g = g /\ InCall(reqs[i]))
    /\ LET r == NoReq(g, m, Len(reqs) + 1)
           lim == limiters[governors[g].limiter]
       IN  reqs' = Append(reqs,
                IF not_configured(governors[g].methods, m)
                THEN passthrough(r, "bypass")
                ELSE [r EXCEPT !.t0 = now - lim.start])
    /\ UNCHANGED <<limiters, governors, now, ready>>
    /\ RuntimeUnchanged

\* the decision on the cell's value cur, read at this step
decide(r, lim, cur) ==
    LET d == test_and_update(lim, cur, r.t0) IN
    IF d.tag = "Err"
    THEN [r EXCEPT !.pc = "negative", !.decision = "denied", !.prev = cur,
                   !.earliest = d.earliest, !.at = now]
    ELSE [r EXCEPT !.pc = "cas", !.prev = cur, !.next = d.next]

\* the load that opens the compare-and-swap loop
CallLoad(i) ==
    /\ reqs[i].pc = "load"
    /\ LET lim == limiters[governors[reqs[i].g].limiter] IN
         reqs' = [reqs EXCEPT ![i] = decide(@, lim, lim.state)]
    /\ UNCHANGED <<limiters, governors, now, ready>>
    /\ RuntimeUnchanged

\* one compare_exchange: on success the request is admitted and forwarded,
\* on failure the decision is taken again on the value found
CallCas(i) ==
    /\ reqs[i].pc = "cas"
    /\ LET h == governors[reqs[i].g].limiter
           lim == limiters[h]
       IN  IF compare_exchange(lim.state, reqs[i].prev)
           THEN /\ limiters' = [limiters EXCEPT ![h].state = reqs[i].next]
                /\ reqs' = [reqs EXCEPT ![i] = passthrough(@, "admitted")]
           ELSE /\ reqs' = [reqs EXCEPT ![i] = decide(@, lim, lim.state)]
                /\ UNCHANGED limiters
    /\ UNCHANGED <<governors, now, ready>>
    /\ RuntimeUnchanged

\* the Err arm forwarding the request all the same
negative_forwarding(r, gov, from) ==
    LET e == TooManyRequests(wait_secs(r.earliest, from)) IN
    [r EXCEPT !.pc = "future", !.kind = "Error", !.error = Some(e),
              !.from = from, !.handler_calls = @ + 1,
              !.inner_calls = @ + 1, !.inner_req = Some(r.req),
              !.error_response = Some(error_handler(gov, e))]

\* the Err arm building the standard response itself, whatever handler is set
negative_unrendered(r, gov, from) ==
    LET e == TooManyRequests(wait_secs(r.earliest, from)) IN
    [r EXCEPT !.pc = "future", !.kind = "Error", !.error = Some(e),
              !.from = from, !.error_response = Some(as_response(e))]

\* the Err(negative) arm: lib.rs:74-97
negative(r, gov, from) ==
    LET e == TooManyRequests(wait_secs(r.earliest, from)) IN
    [r EXCEPT !.pc = "future", !.kind = "Error", !.error = Some(e),
              !.from = from, !.handler_calls = @ + 1,
              !.error_response = Some(error_handler(gov, e))]

\* a denial that costs: the cell is moved on by one period
CallNegative_charging(i) ==
    /\ reqs[i].pc = "negative"
    /\ LET gov == governors[reqs[i].g]
           lim == limiters[gov.limiter]
       IN  /\ reqs' = [reqs EXCEPT ![i] = negative(@, gov, now - lim.start)]
           /\ limiters' = [limiters EXCEPT ![gov.limiter].state = @ + lim.t]
    /\ UNCHANGED <<governors, now, ready>>
    /\ RuntimeUnchanged

CallNegative(i) ==
    /\ reqs[i].pc = "negative"
    /\ LET gov == governors[reqs[i].g]
           lim == limiters[gov.limiter]
       IN  reqs' = [reqs EXCEPT ![i] = negative(@, gov, now - lim.start)]
    /\ UNCHANGED <<limiters, governors, now, ready>>
    /\ RuntimeUnchanged

\* what the inner service's future may yield on a poll
InnerPoll == {[tag |-> "Pending"],
              [tag |-> "Ready", val |-> [tag |-> "Ok", val |-> "inner"]],
              [tag |-> "Ready", val |-> [tag |-> "Err", val |-> "inner"]]}

\* poll handing the rejection over as an error of the service
poll_rejection_as_error(r, inner) ==
    IF r.kind = "Passthrough"
    THEN [r EXCEPT !.inner_out = Some(inner), !.out = Some(inner),
                   !.pc = IF inner.tag = "Ready" THEN "done" ELSE "future"]
    ELSE [r EXCEPT !.error_response = None, !.pc = "done",
                   !.out = Some([tag |-> "Ready",
                                 val |-> [tag |-> "Err", val |-> "governor"]])]

\* poll taking the decision again: a rejection whose quota has come back
\* turns into a forwarded request
poll_deciding(r, inner) ==
    LET lim == limiters[governors[r.g].limiter] IN
    IF r.kind = "Passthrough"
    THEN [r EXCEPT !.inner_out = Some(inner), !.out = Some(inner),
                   !.pc = IF inner.tag = "Ready" THEN "done" ELSE "future"]
    ELSE IF test_and_update(lim, lim.state, now - lim.start).tag = "Ok"
         THEN [r EXCEPT !.kind = "Passthrough", !.decision = "admitted",
                        !.error_response = None, !.inner_calls = @ + 1,
                        !.inner_req = Some(r.req)]
         ELSE IF r.error_response.tag = "Some"
              THEN [r EXCEPT !.error_response = None, !.pc = "done",
                             !.out = Some([tag |-> "Ready",
                                           val |-> [tag |-> "Ok",
                                                    val |-> r.error_response.val]])]
              ELSE [r EXCEPT !.pc = "panicked", !.out = Some([tag |-> "panic"])]

\* poll answering an error of the inner service with a response of its own
poll_swallowing(r, inner) ==
    IF r.kind = "Passthrough"
    THEN [r EXCEPT !.inner_out = Some(inner),
                   !.out = IF inner.tag = "Ready" /\ inner.val.tag = "Err"
                           THEN Some([tag |-> "Ready",
                                      val |-> [tag |-> "Ok", val |-> "governor"]])
                           ELSE Some(inner),
                   !.pc = IF inner.tag = "Ready" THEN "done" ELSE "future"]
    ELSE IF r.error_response.tag = "Some"
         THEN [r EXCEPT !.error_response = None, !.pc = "done",
                        !.out = Some([tag |-> "Ready",
                                      val |-> [tag |-> "Ok",
                                               val |-> r.error_response.val]])]
         ELSE [r EXCEPT !.pc = "panicked", !.out = Some([tag |-> "panic"])]

\* poll handing out a copy of the stored response and keeping it
poll_cloning(r, inner) ==
    IF r.kind = "Passthrough"
    THEN [r EXCEPT !.inner_out = Some(inner), !.out = Some(inner),
                   !.pc = IF inner.tag = "Ready" THEN "done" ELSE "future"]
    ELSE IF r.error_response.tag = "Some"
         THEN [r EXCEPT !.pc = "done",
                        !.out = Some([tag |-> "Ready",
                                      val |-> [tag |-> "Ok",
                                               val |-> r.error_response.val]])]
         ELSE [r EXCEPT !.pc = "panicked", !.out = Some([tag |-> "panic"])]

\* ResponseFuture::poll: lib.rs:128-135
poll(r, inner) ==
    IF r.kind = "Passthrough"
    THEN [r EXCEPT !.inner_out = Some(inner), !.out = Some(inner),
                   !.pc = IF inner.tag = "Ready" THEN "done" ELSE "future"]
    ELSE IF r.error_response.tag = "Some"
         THEN [r EXCEPT !.error_response = None, !.pc = "done",
                        !.out = Some([tag |-> "Ready",
                                      val |-> [tag |-> "Ok",
                                               val |-> r.error_response.val]])]
         ELSE [r EXCEPT !.pc = "panicked", !.out = Some([tag |-> "panic"])]

Poll(i) ==
    /\ \/ reqs[i].pc = "future"
       \/ reqs[i].pc = "done" /\ reqs[i].kind = "Error"
    /\ \E inner \in InnerPoll :
         \* a rejection holds no inner future: one choice stands for all
         /\ reqs[i].kind = "Error" => inner.tag = "Pending"
         /\ reqs' = [reqs EXCEPT ![i] = poll(@, inner)]
    /\ UNCHANGED <<limiters, governors, now, ready>>
    /\ RuntimeUnchanged

\* dropping the future of an admitted request gives its token back
Drop_refunding(i) ==
    /\ reqs[i].pc = "future"
    /\ reqs' = [reqs EXCEPT ![i].pc = "dropped"]
    /\ LET h == governors[reqs[i].g].limiter IN
         limiters' = [limiters EXCEPT ![h].state =
                        IF reqs[i].decision = "admitted" THEN @ - limiters[h].t ELSE @]
    /\ UNCHANGED <<governors, now, ready>>
    /\ RuntimeUnchanged

\* the caller drops the future before it completes
Drop(i) ==
    /\ reqs[i].pc = "future"
    /\ reqs' = [reqs EXCEPT ![i].pc = "dropped"]
    /\ UNCHANGED <<limiters, governors, now, ready>>
    /\ RuntimeUnchanged

\* the clock (DefaultClock, monotonic) advances
Tick ==
    /\ now < MaxTime
    /\ now' = now + 1
    /\ UNCHANGED <<limiters, governors, reqs, ready>>
    /\ RuntimeUnchanged

\* the caller of a rejected request waits a whole second before going on
Sleep ==
    /\ \E i \in 1 .. Len(reqs) : reqs[i].decision = "denied"
    /\ now + from_secs(1) <= MaxTime + from_secs(MaxSleep)
    /\ now' = now + from_secs(1)
    /\ UNCHANGED <<limiters, governors, reqs, ready>>
    /\ RuntimeUnchanged

\* the builders whose finish gave the config the middleware runs on
Init ==
    /\ \E p \in 1 .. MaxPeriod, n \in 1 .. MaxBurst,
          ms \in {None} \cup {Some(x) : x \in MethodSets},
          h \in {"default", "custom"} :
         builder = [period |-> from_nanos(p), burst_size |-> n,
                    methods |-> ms, error_handler |-> h]
    /\ finished = [tag |-> "Some"]
    /\ limiters = <<direct(Quota(builder), 0)>>
    /\ configs = <<finish(builder, 1).val>>
    /\ layers = <<>>
    /\ governors = <<>>
    /\ now = 0
    /\ reqs = <<>>
    /\ ready = None

\* poll_ready holding requests back while the quota is used up
poll_ready_on_quota(gov, inner) ==
    LET lim == limiters[gov.limiter] IN
    IF test_and_update(lim, lim.state, now - lim.start).tag = "Err"
    THEN [tag |-> "Pending"]
    ELSE inner

\* Governor<S>::poll_ready: lib.rs:52-54
poll_ready(gov, inner) == inner

InnerReady == {[tag |-> "Pending"],
               [tag |-> "Ready", val |-> [tag |-> "Ok"]],
               [tag |-> "Ready", val |-> [tag |-> "Err", val |-> "inner"]]}

PollReady(g) ==
    /\ \E inner \in InnerReady :
         ready' = Some([g |-> g, inner |-> inner,
                        out |-> poll_ready(governors[g], inner)])
    /\ UNCHANGED <<limiters, governors, now, reqs>>
    /\ RuntimeUnchanged

\* the calls: construction, call and the clock
NextCall(max) ==
    \/ \E c \in 1 .. Len(configs) : GovernorNew(c)
    \/ \E g \in 1 .. Len(governors) : GovernorClone(g)
    \/ \E g \in 1 .. Len(governors), m \in Method :
         Len(reqs) < max /\ CallBegin(g, m)
    \/ \E i \in 1 .. Len(reqs) : CallLoad(i)
    \/ \E i \in 1 .. Len(reqs) : CallCas(i)
    \/ \E i \in 1 .. Len(reqs) : CallNegative(i)
    \/ Tick

NextAdmission == NextCall(MaxReqs)

\* the calls and the futures they return
Next ==
    \/ NextCall(MaxPolled)
    \/ \E i \in 1 .. Len(reqs) : Poll(i)
    \/ \E i \in 1 .. Len(reqs) : Drop(i)

\* the calls and the readiness of the middleware
NextReady ==
    \/ NextCall(MaxPolled)
    \/ \E g \in 1 .. Len(governors) : PollReady(g)

Spec == Init /\ [][Next]_vars

SpecAdmission == Init /\ [][NextAdmission]_vars

SpecReady == Init /\ [][NextReady]_vars

(***************************************************************************)
(* One policy in use: a builder set to one token a second and bursts of    *)
(* three, calls through the middleware made from its config, and the       *)
(* futures they return.                                                    *)
(***************************************************************************)
\* GovernorConfigBuilder::default().per_second(1).burst_size(3)
ScenarioBuilder ==
    [const_default EXCEPT !.period = from_secs(1), !.burst_size = 3]

InitScenario ==
    /\ builder = ScenarioBuilder
    /\ finished = [tag |-> "Some"]
    /\ limiters = <<direct(Quota(builder), 0)>>
    /\ configs = <<finish(builder, 1).val>>
    /\ layers = <<>>
    /\ governors = <<>>
    /\ now = 0
    /\ reqs = <<>>
    /\ ready = None

\* one middleware, so its calls come one after the other (call takes &mut self)
NextScenario ==
    \/ Len(governors) = 0 /\ GovernorNew(1)
    \/ \E m \in Method :
         /\ Len(governors) = 1 /\ Len(reqs) < ScenarioBuilder.burst_size + 1
         /\ CallBegin(1, m)
    \/ \E i \in 1 .. Len(reqs) : CallLoad(i)
    \/ \E i \in 1 .. Len(reqs) : CallCas(i)
    \/ \E i \in 1 .. Len(reqs) : CallNegative(i)
    \/ \E i \in 1 .. Len(reqs) : Poll(i)
    \/ Tick

SpecScenario == InitScenario /\ [][NextScenario]_vars

\* the configs, their clones and layers: finish once more on the builder,
\* and calls through the middlewares the layers make
NextShare ==
    \/ FinishUpTo(MaxFinish + 1)
    \/ \E c \in 1 .. Len(configs) : ConfigClone(c)
    \/ \E c \in 1 .. Len(configs) : LayerNew(c)
    \/ \E l \in 1 .. Len(layers) : LayerClone(l)
    \/ \E l \in 1 .. Len(layers) : Layer(l)
    \/ \E g \in 1 .. Len(governors), m \in Method :
         Len(reqs) < MaxPolled /\ CallBegin(g, m)
    \/ \E i \in 1 .. Len(reqs) : CallLoad(i)
    \/ \E i \in 1 .. Len(reqs) : CallCas(i)
    \/ \E i \in 1 .. Len(reqs) : CallNegative(i)
    \/ Tick

\* GovernorConfigBuilder::default().burst_size(1), finished once
InitShare ==
    /\ builder = [const_default EXCEPT !.burst_size = 1]
    /\ finished = [tag |-> "Some"]
    /\ limiters = <<direct(Quota(builder), 0)>>
    /\ configs = <<finish(builder, 1).val>>
    /\ layers = <<>>
    /\ governors = <<>>
    /\ now = 0
    /\ reqs = <<>>
    /\ ready = None

SpecShare == InitShare /\ [][NextShare]_vars

\* a preset, one middleware on it and the calls through it, GET and POST
\* requests in turn
NextPresets ==
    \/ Default
    \/ Secure
    \/ Len(governors) = 0 /\ Len(configs) = 1 /\ GovernorNew(1)
    \/ \E m \in Method :
         /\ Len(governors) = 1 /\ Len(reqs) < builder.burst_size + 2
         /\ reqs # <<>> => m # reqs[Len(reqs)].req.method
         /\ CallBegin(1, m)
    \/ \E i \in 1 .. Len(reqs) : CallLoad(i)
    \/ \E i \in 1 .. Len(reqs) : CallCas(i)
    \/ \E i \in 1 .. Len(reqs) : CallNegative(i)
    \/ Tick
    \/ Sleep

SpecPresets == InitBuilder /\ [][NextPresets]_vars

(***************************************************************************)
(* The claims.                                                             *)
(***************************************************************************)
P == builder.period
B == builder.burst_size

Reqs == 1 .. Len(reqs)
\* the requests the quota applies to, and those whose call has returned
Subject(i) == reqs[i].decision # "bypass"
Decided(i) == reqs[i].decision \in {"admitted", "denied"}
Returned(i) == reqs[i].pc \notin {"load", "cas", "negative"}
Admitted == {i \in Reqs : reqs[i].decision = "admitted"}
Denied == {i \in Reqs : reqs[i].decision = "denied"}
Forwarded(i) ==
    /\ reqs[i].kind = "Passthrough"
    /\ reqs[i].inner_calls = 1
    /\ reqs[i].inner_req = Some(reqs[i].req)
\* the position of request i among the quota-subject requests
Rank(i) == Cardinality({j \in 1 .. i : Subject(j)})
\* the clock at the reading of request i's call
ReadAt(i) == reqs[i].t0 + limiters[governors[reqs[i].g].limiter].start
\* no call began while another was in progress
Sequential == \A i \in Reqs : ~reqs[i].concurrent
\* all clock readings of the quota-subject calls lie less than P apart
WithinPeriod ==
    \A i, j \in Reqs : Subject(i) /\ Subject(j) => reqs[j].t0 - reqs[i].t0 < P
SameInstant ==
    \A i, j \in Reqs : Subject(i) /\ Subject(j) => reqs[j].t0 = reqs[i].t0

\* what a returned request of a sequential burst on a fresh limiter shows,
\* up to the wait time of the denial
BurstOutcome(i) ==
    /\ Rank(i) <= B => reqs[i].decision = "admitted" /\ Forwarded(i)
    /\ Rank(i) > B =>
         /\ reqs[i].decision = "denied"
         /\ reqs[i].inner_calls = 0
         /\ reqs[i].handler_calls = 1
         /\ reqs[i].error.tag = "Some"

\* C1 as stated: of B+1 consecutive quota-subject requests made faster than
\* P on a fresh tracker, the first B are admitted and forwarded and the
\* (B+1)-th is denied with a wait_time above 0 in the error.
C1_Original ==
    Sequential /\ WithinPeriod =>
      \A i \in Reqs : Subject(i) /\ Returned(i) =>
        /\ BurstOutcome(i)
        /\ Rank(i) = B + 1 => reqs[i].error.val.wait_time > 0

\* C1 amended: the first B are admitted and forwarded and every later one of
\* the burst is denied; the limiter's wait at the call's clock reading is
\* above 0 and at most P, and the wait_time of the error is what is left of
\* it at the second clock reading in whole seconds, 0 when P is under a second.
C1_Burst ==
    Sequential /\ WithinPeriod =>
      \A i \in Reqs : Subject(i) /\ Returned(i) =>
        /\ BurstOutcome(i)
        /\ Rank(i) > B =>
             /\ reqs[i].earliest > reqs[i].t0
             /\ reqs[i].earliest - reqs[i].t0 <= P
             /\ reqs[i].error.val.wait_time * NanosPerSec
                  <= reqs[i].earliest - reqs[i].t0
             /\ P < NanosPerSec => reqs[i].error.val.wait_time = 0
             /\ reqs[i].earliest - reqs[i].from >= NanosPerSec
                  => reqs[i].error.val.wait_time > 0

C1_Witness ==
    /\ Sequential /\ WithinPeriod
    /\ B = 2 /\ Len(reqs) = 3
    /\ \A i \in Reqs : Subject(i) /\ Returned(i)
    /\ reqs[3].decision = "denied" /\ reqs[3].error.val.wait_time = 0

C3_SharedLimiter ==
    /\ Len(limiters) = Len(configs)
    /\ \A g \in 1 .. Len(governors) :
         /\ governors[g].limiter = configs[1].limiter
         /\ LET cell == limiters[governors[g].limiter].state IN
              IF Admitted = {} THEN cell = 0
              ELSE \E i \in Admitted :
                     /\ \A j \in Admitted : reqs[i].t0 <= reqs[j].t0
                     /\ cell >= reqs[i].t0 + (Cardinality(Admitted) + 1) * P

C3_Witness ==
    /\ Len(governors) = 2
    /\ \E i, j \in Admitted : reqs[i].g = 1 /\ reqs[j].g = 2
    /\ \E i \in Denied : TRUE

\* C4: a request whose method is outside a configured filter is forwarded
\* to the inner service by call, whatever the state of the quota, and the
\* limiter is the same before and after.
C4_OutsideFilter ==
    [][\A g \in 1 .. Len(governors), m \in Method :
         /\ Len(reqs') = Len(reqs) + 1
         /\ reqs'[Len(reqs')].g = g
         /\ reqs'[Len(reqs')].req.method = m
         /\ governors[g].methods.tag = "Some"
         /\ m \notin governors[g].methods.val
         => /\ limiters' = limiters
            /\ reqs'[Len(reqs')].decision = "bypass"
            /\ reqs'[Len(reqs')].pc = "future"
            /\ reqs'[Len(reqs')].kind = "Passthrough"
            /\ reqs'[Len(reqs')].inner_calls = 1
            /\ reqs'[Len(reqs')].inner_req = Some(reqs'[Len(reqs')].req)]_vars

\* the quota is exhausted (a request was denied and no time has passed) and
\* a later request outside the filter was forwarded
C4_Witness ==
    \E i, j \in Reqs :
      /\ i < j
      /\ reqs[i].decision = "denied" /\ reqs[i].at = now
      /\ reqs[j].decision = "bypass" /\ Forwarded(j)
      /\ reqs[j].req.method \notin governors[reqs[j].g].methods.val

\* C5: when a request was denied and a later quota-subject request reads the
\* clock at least P after that denial, with no admission in between (it
\* decides on the cell value the denial saw), the later request is admitted.
C5_Replenished ==
    \A i, j \in Reqs :
      /\ reqs[i].decision = "denied"
      /\ Decided(j)
      /\ ReadAt(j) >= reqs[i].at + P
      /\ reqs[j].prev = reqs[i].prev
      => reqs[j].decision = "admitted" /\ Forwarded(j)

C5_Witness ==
    \E i, j \in Reqs :
      /\ reqs[i].decision = "denied"
      /\ ReadAt(j) >= reqs[i].at + P
      /\ reqs[j].prev = reqs[i].prev
      /\ reqs[j].decision = "admitted"
      /\ P = 2

HeaderNames == {"x-ratelimit-after", "retry-after"}
\* the headers a map carries with the value v, whatever else it holds
Carries(headers, v) ==
    /\ HeaderNames \subseteq DOMAIN headers
    /\ \A h \in HeaderNames : headers[h] = v
\* the limiter's wait of a denied request at its second clock reading
ReportedWait(i) ==
    IF reqs[i].earliest > reqs[i].from THEN reqs[i].earliest - reqs[i].from ELSE 0
\* that wait in whole seconds
WholeSeconds(i) ==
    CHOOSE s \in 0 .. ReportedWait(i) :
      s * NanosPerSec <= ReportedWait(i) /\ ReportedWait(i) < (s + 1) * NanosPerSec
Rejected(i) == reqs[i].decision = "denied" /\ reqs[i].kind = "Error"

\* C6 as stated: every denial response carries x-ratelimit-after and
\* retry-after with the same value, the limiter's wait rounded down to seconds.
C6_Original ==
    \A i \in Reqs : Rejected(i) /\ reqs[i].error_response.tag = "Some" =>
      Carries(reqs[i].error_response.val.headers, Decimal(WholeSeconds(i)))

\* C6 amended: the TooManyRequests error handed to the error handler always
\* carries both headers with the same value, its wait_time, which is the
\* limiter's wait rounded down to seconds; the response carries them when the
\* handler is the default one, a handler set by error_handler decides itself.
C6_ErrorHeaders ==
    \A i \in Reqs : Rejected(i) =>
      /\ reqs[i].error.tag = "Some"
      /\ reqs[i].error.val.wait_time = WholeSeconds(i)
      /\ reqs[i].error.val.headers.tag = "Some"
      /\ DOMAIN reqs[i].error.val.headers.val = HeaderNames
      /\ Carries(reqs[i].error.val.headers.val, Decimal(WholeSeconds(i)))
      /\ governors[reqs[i].g].error_handler = "default"
           /\ reqs[i].error_response.tag = "Some"
           => Carries(reqs[i].error_response.val.headers, Decimal(WholeSeconds(i)))

C6_Witness ==
    \E i \in Reqs :
      /\ Rejected(i)
      /\ ReportedWait(i) > NanosPerSec
      /\ reqs[i].error.val.wait_time = 1
      /\ governors[reqs[i].g].error_handler = "default"
      /\ reqs[i].error_response.val.headers["retry-after"] = <<1>>

\* C7: finish returns None exactly when the period or the burst size is
\* zero, a config otherwise, and never panics.
C7_FinishReports ==
    finished.tag # "unset" =>
      /\ finished.tag # "panic"
      /\ finished.tag = "None" <=> (builder.period = 0 \/ builder.burst_size = 0)
      /\ finished.tag = "Some" <=> (builder.period # 0 /\ builder.burst_size # 0)

\* C8: the inner service is never called for a denied request, neither in
\* call nor when the future is polled.
C8_DeniedNotForwarded ==
    \A i \in Reqs : reqs[i].decision = "denied" =>
      /\ reqs[i].inner_calls = 0
      /\ reqs[i].inner_req = None
      /\ reqs[i].inner_out = None

C8_Witness ==
    \E i \in Reqs :
      /\ reqs[i].decision = "denied"
      /\ reqs[i].pc = "done"
      /\ reqs[i].out # None
      /\ reqs[i].inner_calls = 0

\* C9: the future of a denied request yields, on its first poll, Ready(Ok)
\* of the rejection response built in call, never Pending and never an
\* error; an error the middleware's future yields is the one the inner
\* future yielded.
C9_RejectionIsOk ==
    [][\A i \in Reqs :
         /\ reqs[i].decision = "denied" /\ reqs[i].out = None /\ reqs'[i].out # None
            => /\ reqs[i].error_response.tag = "Some"
               /\ reqs'[i].out = Some([tag |-> "Ready",
                                       val |-> [tag |-> "Ok",
                                                val |-> reqs[i].error_response.val]])
               /\ reqs'[i].pc = "done"
         /\ reqs'[i].out # reqs[i].out
              /\ reqs'[i].out.val.tag = "Ready"
              /\ reqs'[i].out.val.val.tag = "Err"
            => /\ reqs'[i].decision # "denied"
               /\ reqs'[i].kind = "Passthrough"
               /\ reqs'[i].inner_out = reqs'[i].out]_vars

C9_Witness ==
    \E i, j \in Reqs :
      /\ reqs[i].decision = "denied"
      /\ reqs[i].out.tag = "Some"
      /\ reqs[i].out.val.tag = "Ready"
      /\ reqs[i].out.val.val.tag = "Ok"
      /\ reqs[i].out.val.val.val.status = 429
      /\ reqs[j].decision = "admitted"
      /\ reqs[j].out.tag = "Some"
      /\ reqs[j].out.val.tag = "Ready"
      /\ reqs[j].out.val.val.tag = "Err"

\* whether the quota of governor g is used up at the present instant
Exhausted(g) ==
    LET lim == limiters[governors[g].limiter]
        tat == IF lim.state = 0 THEN now - lim.start + lim.t ELSE lim.state
    IN  now - lim.start < tat - lim.tau

\* C10: poll_ready answers what the inner service's poll_ready answers,
\* pending, ready or its error, whatever the state of the quota, and leaves
\* the limiter as it is.
C10_ReadyAsInner ==
    [][ready' # ready =>
         /\ ready'.val.out = ready'.val.inner
         /\ limiters' = limiters]_vars

C10_Witness ==
    /\ ready.tag = "Some"
    /\ Exhausted(ready.val.g)
    /\ \E i \in Reqs : reqs[i].decision = "denied" /\ reqs[i].g = ready.val.g
    /\ ready.val.inner = [tag |-> "Ready", val |-> [tag |-> "Ok"]]
    /\ ready.val.out = [tag |-> "Ready", val |-> [tag |-> "Ok"]]

\* the clock reading of the first quota-subject request
FirstRead == reqs[CHOOSE i \in Reqs : Subject(i) /\ Rank(i) = 1].t0
\* the calls were made one after the other, all within less than a period:
\* every clock reading, the second reading of a denial included
BackToBack ==
    /\ Sequential
    /\ \A i \in Reqs : reqs[i].t0 - FirstRead < P /\ reqs[i].from - FirstRead < P
\* what the first B requests of the scenario show: forwarded, and what their
\* future has yielded is what the inner future yielded
FromDownstream(i) ==
    /\ reqs[i].decision = "admitted" /\ Forwarded(i)
    /\ reqs[i].handler_calls = 0
    /\ reqs[i].out = reqs[i].inner_out
\* a rejection with status 429 and the value v in retry-after
RejectionAfter(i, v) ==
    /\ reqs[i].decision = "denied" /\ reqs[i].kind = "Error"
    /\ reqs[i].inner_calls = 0
    /\ reqs[i].error.val.wait_time = v
    /\ reqs[i].pc = "future" =>
         /\ reqs[i].error_response.val.status = 429
         /\ reqs[i].error_response.val.headers["retry-after"] = Decimal(v)
    /\ reqs[i].pc = "done" =>
         /\ reqs[i].out.val.val.tag = "Ok"
         /\ reqs[i].out.val.val.val.status = 429
         /\ reqs[i].out.val.val.val.headers["retry-after"] = Decimal(v)

\* C11 as stated: period 1 s and burst 3, four requests back-to-back:
\* requests 1 to 3 are answered by the inner service and request 4 is
\* rejected with retry-after 1.
C11_Original ==
    BackToBack =>
      \A i \in Reqs : Returned(i) =>
        /\ Rank(i) <= B => FromDownstream(i)
        /\ Rank(i) = B + 1 => RejectionAfter(i, 1)

\* C11 amended: requests 1 to 3 are answered by the inner service and
\* request 4 is rejected with status 429; its retry-after is what is left of
\* the second since the first request's clock reading, in whole seconds: 1
\* only when the clock has not moved since that reading, 0 as soon as it has.
C11_Scenario ==
    BackToBack =>
      \A i \in Reqs : Returned(i) =>
        /\ Rank(i) <= B => FromDownstream(i)
        /\ Rank(i) = B + 1 =>
             RejectionAfter(i, IF reqs[i].from = FirstRead THEN 1 ELSE 0)

C11_Witness ==
    /\ BackToBack
    /\ P = from_secs(1) /\ B = 3 /\ Len(reqs) = 4
    /\ \A i \in 1 .. 3 :
         /\ FromDownstream(i)
         /\ reqs[i].out = Some([tag |-> "Ready", val |-> [tag |-> "Ok", val |-> "inner"]])
    /\ RejectionAfter(4, 0)
    /\ reqs[4].pc = "done"
    /\ reqs[4].earliest - reqs[4].from > 0

\* the limiter of the config made last
LastLimiter == limiters[configs[Len(configs)].limiter]
\* The config made last is a policy of the given burst and period for all
\* methods: its limiter has these parameters, and the calls through the one
\* middleware on it show them: of requests read within less than a period
\* the first burst are admitted and the next is denied until one period
\* after the first reading; a request deciding on the cell a denial saw is
\* admitted exactly when it reads the clock at or after that instant.
BehavesAs(burst, period) ==
    /\ configs # <<>>
    /\ configs[Len(configs)].methods = None
    /\ LastLimiter.t = period
    /\ LastLimiter.tau = burst * period
    /\ Len(configs) = 1 =>
         /\ \A i \in Reqs : Subject(i)
         /\ \A i \in Reqs :
              Returned(i) /\ (\A j \in 1 .. i : reqs[j].t0 - reqs[1].t0 < period) =>
                /\ i <= burst => reqs[i].decision = "admitted" /\ Forwarded(i)
                /\ i = burst + 1 =>
                     /\ reqs[i].decision = "denied"
                     /\ reqs[i].earliest = reqs[1].t0 + period
         /\ \A i, j \in Reqs :
              reqs[i].decision = "denied" /\ Returned(j) /\ reqs[j].prev = reqs[i].prev =>
                (reqs[j].decision = "admitted" <=> reqs[j].t0 >= reqs[i].earliest)

\* C12: GovernorConfig::default gives a policy of burst 8 and one token every
\* 500 ms, GovernorConfig::secure one of burst 2 and one token every 4 s,
\* both for all methods, and neither construction fails.
C12_Presets ==
    finished.tag # "unset" =>
      /\ finished.tag = "Some"
      /\ finished.preset = "default" => BehavesAs(8, from_millis(MillisPerSec \div 2))
      /\ finished.preset = "secure" => BehavesAs(2, from_secs(4))

\* secure: two admitted, the third denied, and a fourth admitted four
\* seconds after the first
C12_Witness ==
    /\ finished.tag = "Some" /\ finished.preset = "secure"
    /\ Len(reqs) = 4
    /\ reqs[1].decision = "admitted" /\ reqs[2].decision = "admitted"
    /\ reqs[3].decision = "denied" /\ reqs[3].error.val.wait_time = 3
    /\ reqs[4].decision = "admitted" /\ reqs[4].t0 = reqs[1].t0 + from_secs(4)
    /\ reqs[1].req.method # reqs[2].req.method

\* default: eight admitted and the ninth denied
C12_WitnessDefault ==
    /\ finished.tag = "Some" /\ finished.preset = "default"
    /\ \A i \in 1 .. 8 : i \in Admitted
    /\ 9 \in Denied

\* the variant a decision goes with
KindOf(decision) == IF decision = "denied" THEN "Error" ELSE "Passthrough"

\* C13: the variant of the future is set by the step of call that decides
\* (the filter test, the successful compare-and-swap, the Err arm), it is
\* the one of the decision, a future is only polled with its variant set,
\* and no later step, of this request or another, a call, a poll or the
\* clock, changes the variant or the decision.
C13_DecisionFixed ==
    [][\A i \in 1 .. Len(reqs') :
         /\ reqs'[i].pc \in {"future", "done", "dropped", "panicked"} =>
              /\ reqs'[i].decision \in {"bypass", "admitted", "denied"}
              /\ reqs'[i].kind = KindOf(reqs'[i].decision)
         /\ reqs'[i].pc \in {"load", "cas", "negative"} =>
              reqs'[i].kind = "none" /\ reqs'[i].out = None
         /\ i <= Len(reqs) /\ Returned(i) =>
              /\ reqs'[i].kind = reqs[i].kind
              /\ reqs'[i].decision = reqs[i].decision
              /\ Returned(i)']_vars

\* a rejection polled after its quota came back is still the rejection, and
\* a forwarded request is still pending on the inner service
C13_Witness ==
    \E i, j \in Reqs :
      /\ reqs[i].decision = "denied" /\ reqs[i].kind = "Error"
      /\ reqs[i].pc = "done" /\ reqs[i].out.val.val.val.status = 429
      /\ ~Exhausted(reqs[i].g)
      /\ now > reqs[i].at
      /\ reqs[j].kind = "Passthrough" /\ reqs[j].out = Some([tag |-> "Pending"])

\* C14: a forwarded request, admitted or outside the filter, reaches the
\* inner service once and as it came, the error handler is not called for
\* it, and each poll of its future hands on what the inner future yielded
\* at that poll: pending, a response or an error, as it is.
C14_Verbatim ==
    [][\A i \in 1 .. Len(reqs') :
         reqs'[i].decision \in {"bypass", "admitted"} =>
           /\ reqs'[i].kind = "Passthrough"
           /\ reqs'[i].inner_calls = 1
           /\ reqs'[i].inner_req = Some(reqs'[i].req)
           /\ reqs'[i].handler_calls = 0
           /\ reqs'[i].error_response = None
           /\ reqs'[i].out = reqs'[i].inner_out
           /\ reqs'[i].out # None => reqs'[i].out.val \in InnerPoll
           /\ i <= Len(reqs) =>
                /\ reqs'[i].req = reqs[i].req
                /\ reqs[i].pc = "done" => reqs'[i] = reqs[i]]_vars

\* an admitted request answered by the inner service's response and one
\* outside the filter answered by its error
C14_Witness ==
    \E i, j \in Reqs :
      /\ reqs[i].decision = "admitted"
      /\ reqs[i].out = Some([tag |-> "Ready", val |-> [tag |-> "Ok", val |-> "inner"]])
      /\ reqs[j].decision = "bypass"
      /\ reqs[j].out = Some([tag |-> "Ready", val |-> [tag |-> "Err", val |-> "inner"]])
      /\ reqs[j].inner_out = reqs[j].out

\* the response call built for the denied request i
BuiltAtCall(i) == error_handler(governors[reqs[i].g], reqs[i].error.val)

\* C15: the future of a denied request holds the response built in call
\* until its first poll; that poll yields Ready(Ok) of it, takes it out and
\* completes the future; a poll after that panics, it yields neither a
\* response nor an error, and the response is never put back.  A future
\* dropped before its first poll yields nothing.
C15_TakenOnce ==
    [][\A i \in Reqs : reqs[i].kind = "Error" =>
         /\ reqs[i].pc = "future" =>
              /\ reqs[i].error_response = Some(BuiltAtCall(i))
              /\ reqs[i].out = None
         /\ reqs[i].pc = "future" /\ reqs'[i] # reqs[i] =>
              \/ reqs'[i] = [reqs[i] EXCEPT !.pc = "dropped"]
              \/ /\ reqs'[i].out = Some([tag |-> "Ready",
                                         val |-> [tag |-> "Ok", val |-> BuiltAtCall(i)]])
                 /\ reqs'[i].error_response = None
                 /\ reqs'[i].pc = "done"
         /\ reqs[i].pc = "done" =>
              /\ reqs[i].error_response = None
              /\ reqs'[i] # reqs[i] =>
                   /\ reqs'[i].pc = "panicked"
                   /\ reqs'[i].out = Some([tag |-> "panic"])
                   /\ reqs'[i].error_response = None
         /\ reqs[i].pc \in {"panicked", "dropped"} => reqs'[i] = reqs[i]]_vars

\* a rejection polled twice: the first poll gave the response, the second
\* panicked
C15_Witness ==
    \E i \in Reqs :
      /\ reqs[i].decision = "denied" /\ reqs[i].kind = "Error"
      /\ reqs[i].pc = "panicked"
      /\ reqs[i].out = Some([tag |-> "panic"])
      /\ reqs[i].error_response = None
      /\ reqs[i].handler_calls = 1

\* C16: once call has returned, the error handler has been called once for
\* a denied request, with the TooManyRequests error of the request's wait
\* in whole seconds and both retry headers, and not at all for an admitted
\* request or one outside the filter; during call it has not been called
\* before the decision; and the response the denied request's future holds,
\* and yields, is what the configured handler returns for that error.
C16_RenderedOnce ==
    \A i \in Reqs :
      /\ InCall(reqs[i]) => reqs[i].handler_calls = 0 /\ reqs[i].error = None
      /\ Returned(i) /\ reqs[i].decision # "denied" =>
           reqs[i].handler_calls = 0 /\ reqs[i].error = None
      /\ Returned(i) /\ reqs[i].decision = "denied" =>
           /\ reqs[i].handler_calls = 1
           /\ reqs[i].error = Some([wait_time |-> WholeSeconds(i),
                                    headers |-> Some([h \in HeaderNames |->
                                                        Decimal(WholeSeconds(i))])])
           /\ LET rendered == IF governors[reqs[i].g].error_handler = "default"
                              THEN as_response(reqs[i].error.val)
                              ELSE custom_response(reqs[i].error.val)
              IN  /\ reqs[i].pc \in {"future", "dropped"} =>
                       reqs[i].error_response = Some(rendered)
                  /\ reqs[i].pc = "done" =>
                       reqs[i].out = Some([tag |-> "Ready",
                                           val |-> [tag |-> "Ok", val |-> rendered]])

\* a denied request answered by the response of a handler set with
\* error_handler, next to an admitted one
C16_Witness ==
    \E i, j \in Reqs :
      /\ reqs[i].decision = "denied" /\ reqs[i].pc = "done"
      /\ governors[reqs[i].g].error_handler = "custom"
      /\ reqs[i].handler_calls = 1
      /\ reqs[i].out.val.val.val = custom_response(reqs[i].error.val)
      /\ reqs[j].decision = "admitted" /\ reqs[j].handler_calls = 0

\* the instants of the model's clock
Instants == 0 .. MaxTime + from_secs(MaxSleep)
\* the quota-subject requests admitted on a clock reading within [a, b]
AdmittedWithin(a, b) == {i \in Admitted : a <= ReadAt(i) /\ ReadAt(i) <= b}

\* C17: in every window of length T the requests admitted through all
\* instances, taken at the clock reading of their call, number at most
\* B + floor(T / P); in particular never more than B at one instant.
C17_RateBound ==
    \A a \in Instants : \A b \in a .. MaxTime + from_secs(MaxSleep) :
      Cardinality(AdmittedWithin(a, b)) <= B + (b - a) \div P

\* what the limiter's arithmetic gives instead: one more
C17_BoundPlusOne ==
    \A a \in Instants : \A b \in a .. MaxTime + from_secs(MaxSleep) :
      Cardinality(AdmittedWithin(a, b)) <= B + 1 + (b - a) \div P

\* after an idle time, B + 1 requests admitted on one clock reading
C17_IdleBurst ==
    \E a \in Instants :
      /\ Cardinality(AdmittedWithin(a, a)) = B + 1
      /\ Sequential

\* the limiter request i goes through
LimiterOf(i) == limiters[governors[reqs[i].g].limiter]

\* C18: the only step of a request that changes the limiter is the one that
\* admits it; no step of a request that ends denied, the denial and the
\* building of its response included, changes the cell.  So a request's
\* decision is the limiter's decision on a cell only admissions have
\* written, at the request's own clock reading.
C18_DenialFrame ==
    [][\A i \in 1 .. Len(reqs') :
         /\ i > Len(reqs) \/ reqs'[i] # reqs[i] =>
              \/ limiters' = limiters
              \/ /\ i <= Len(reqs)
                 /\ reqs[i].decision = "none" /\ reqs'[i].decision = "admitted"
                 /\ limiters' = [limiters EXCEPT ![governors[reqs[i].g].limiter].state
                                                   = reqs[i].next]
         /\ reqs'[i].decision = "denied" =>
              /\ limiters' = limiters \/ (i <= Len(reqs) /\ reqs'[i] = reqs[i])
              /\ LimiterOf(i)'.state >= reqs'[i].prev
              /\ reqs'[i].earliest
                   = test_and_update(LimiterOf(i), reqs'[i].prev, reqs'[i].t0).earliest]_vars

\* a request denied, its response built, and a later request admitted on
\* the very cell value the denial saw, at the instant the denial named
C18_Witness ==
    \E i, j \in Reqs :
      /\ reqs[i].decision = "denied" /\ reqs[i].pc = "future"
      /\ reqs[j].decision = "admitted" /\ j > i
      /\ reqs[j].prev = reqs[i].prev
      /\ reqs[j].t0 = reqs[i].earliest
      /\ reqs[i].earliest > reqs[i].t0

\* C19: the step that admits a request moves the cell on by one period at
\* least, within call; after call has returned no step of that request, a
\* poll yielding pending, a response or an error of the inner service, or
\* the drop of the future, polled or not, changes the limiter; and the cell
\* never goes back.
C19_NoRefund ==
    [][/\ \A h \in 1 .. Len(limiters) :
            /\ limiters'[h].state >= limiters[h].state
            /\ limiters'[h].t = limiters[h].t /\ limiters'[h].tau = limiters[h].tau
       /\ \A i \in Reqs :
            /\ reqs[i].decision = "none" /\ reqs'[i].decision = "admitted" =>
                 /\ LimiterOf(i)'.state >= LimiterOf(i).state + LimiterOf(i).t
                 /\ LimiterOf(i)'.state >= reqs[i].t0 + LimiterOf(i).t
                 /\ reqs'[i].out = None
            /\ Returned(i) /\ reqs'[i] # reqs[i] => limiters' = limiters]_vars

\* an admitted request whose future was dropped without a poll, another
\* whose inner service answered with an error, and the quota they used is
\* still used up: the cell stands where the two admissions put it
C19_Witness ==
    \E i, j \in Admitted :
      /\ reqs[i].pc = "dropped" /\ reqs[i].out = None
      /\ reqs[j].out = Some([tag |-> "Ready", val |-> [tag |-> "Err", val |-> "inner"]])
      /\ B = 2
      /\ Exhausted(reqs[i].g)
      /\ LimiterOf(i).state = Max(reqs[i].next, reqs[j].next)

\* the configs finish made, the others being clones
Made == {c \in 1 .. Len(configs) : "clone_of" \notin DOMAIN configs[c]}
\* the limiter behind a layer
LayerLimiter(l) == configs[layers[l].config].limiter
\* the requests admitted through limiter h
AdmittedThrough(h) == {i \in Admitted : governors[reqs[i].g].limiter = h}

\* what holds of the configs, layers and middlewares at any time: the
\* configs of separate finish calls hold different limiters, one per call; a
\* clone of a config and a clone of a layer hold the limiter of their
\* original, and a middleware that of its layer; a limiter's budget is
\* untouched until a request is admitted through a holder of that very
\* limiter, and a request is denied only after such an admission.
Sharing ==
    /\ Len(limiters) = Cardinality(Made)
    /\ \A c, d \in Made : c # d => configs[c].limiter # configs[d].limiter
    /\ \A c \in 1 .. Len(configs) :
         c \notin Made => configs[c].limiter = configs[configs[c].clone_of].limiter
    /\ \A l \in 1 .. Len(layers) :
         "clone_of" \in DOMAIN layers[l] =>
           /\ layers[l].config = layers[layers[l].clone_of].config
           /\ LayerLimiter(l) = LayerLimiter(layers[l].clone_of)
    /\ \A g \in 1 .. Len(governors) :
         governors[g].limiter = LayerLimiter(governors[g].layer)
    /\ \A h \in 1 .. Len(limiters) :
         limiters[h].state = 0 <=> AdmittedThrough(h) = {}
    /\ \A j \in Denied :
         \E i \in AdmittedThrough(governors[reqs[j].g].limiter) :
           reqs[j].prev >= reqs[i].next

\* C20: a successful finish adds one limiter with its budget full, leaves
\* the limiters there are and the builder as they are, and its config holds
\* the new limiter, on a builder finished before as well; cloning a config
\* or a layer and making a middleware add no limiter and change none; and
\* Sharing holds throughout.
C20_FreshPerFinish ==
    [][/\ Sharing'
       /\ Made' # Made =>
            /\ builder' = builder
            /\ limiters' = Append(limiters, direct(Quota(builder), now))
            /\ configs'[Len(configs')].limiter = Len(limiters')
            /\ configs'[Len(configs')].methods = builder.methods
       /\ Made' = Made /\ <<configs, layers, governors>> # <<configs, layers, governors>>' =>
            limiters' = limiters]_vars

\* two configs from two finish calls on the one builder of burst 1, a
\* middleware on each through a layer, and a request admitted through each
\* on the same clock reading, the second limiter made after the first was
\* used up
C20_Witness ==
    \E i, j \in Admitted :
      /\ B = 1 /\ Cardinality(Made) = 2
      /\ governors[reqs[i].g].limiter = 1 /\ governors[reqs[j].g].limiter = 2
      /\ ReadAt(i) = ReadAt(j)
      /\ limiters[2].start = ReadAt(i)
      /\ i < j

\* a layer and its clone, a middleware on each: the request through the
\* one is admitted, the request through the other denied
C20_WitnessClone ==
    \E i \in Admitted, j \in Denied :
      /\ reqs[i].g # reqs[j].g
      /\ "clone_of" \in DOMAIN layers[governors[reqs[j].g].layer]
      /\ layers[governors[reqs[j].g].layer].clone_of = governors[reqs[i].g].layer
      /\ ReadAt(i) = ReadAt(j)

====
